---- MODULE Spec2Model ----
(***************************************************************************)
(* The notification bridge of test_server/notifications: an MQTT message   *)
(* (topic, payload) is parsed (payload_parser.py), routed (mqtt_handler.py *)
(* on_message) and, on a firing decision, handed to the FCM gateway        *)
(* (fcm_service.py send_to_topic).                                         *)
(*                                                                         *)
(* Text.  A topic is a sequence of one-character strings.  A payload text  *)
(* is the sequence of its lexemes: runs of whitespace, bare words, number  *)
(* literals, double-quoted runs, date-time runs and the JSON punctuation.  *)
(* Two texts are equal exactly when their lexeme sequences are equal.      *)
(* Datetimes are whole seconds since the epoch (negative before it).       *)
(***************************************************************************)
EXTENDS Integers, Sequences, FiniteSets, TLC

\* ---------------------------------------------------------------- lexemes

Lex(k, s, n, c) == [k |-> k, s |-> s, n |-> n, c |-> c]
\* a run of whitespace
Ws == Lex("ws", " ", 0, <<>>)
\* a bare word: letters, with no quotes around it
W(s) == Lex("word", s, 0, <<>>)
\* a number literal: form "int" is the decimal digits of n, "dot0" is n.0,
\* "e18" and "e20" are the literals 1e18 and 1e20, "bigint" is 1 followed by
\* n zeros
Num(form, n) == Lex("num", form, n, <<>>)
\* a double-quoted run "..." with the lexemes c between the quotes
Str(c) == Lex("str", "", 0, c)
\* JSON punctuation: { } : ,
Pn(s) == Lex("punct", s, 0, <<>>)
\* a date-time run for second n written in layout fmt; "dtl" is the same
\* run with its letters (T, Z) in lower case
Dt(fmt, n) == Lex("dt", fmt, n, <<>>)

\* ------------------------------------------------------ str.strip, lower

RECURSIVE LStrip(_)
LStrip(t) == IF t # <<>> /\ Head(t).k = "ws" THEN LStrip(Tail(t)) ELSE t

RECURSIVE RStrip(_)
RStrip(t) ==
  IF t # <<>> /\ t[Len(t)].k = "ws" THEN RStrip(SubSeq(t, 1, Len(t) - 1)) ELSE t

\* str.strip(): leading and trailing whitespace removed
Strip(t) == RStrip(LStrip(t))

\* str.lower() on one bare word
LowerWord(s) ==
  CASE s = "ON" -> "on"
    [] s = "On" -> "on"
    [] s = "OFF" -> "off"
    [] s = "Off" -> "off"
    [] s = "Online" -> "online"
    [] s = "Weird" -> "weird"
    [] s = "TRUE" -> "true"
    [] s = "NaN" -> "nan"
    [] s = "Infinity" -> "infinity"
    [] s = "-Infinity" -> "-infinity"
    [] s = "Payload" -> "payload"
    [] OTHER -> s

\* the layouts whose text holds a letter (T, Z)
LetterLayouts == {"T", "TZ", "Tf", "TfZ"}

\* str.lower() on a lexeme that holds no quoted run
LowerFlat(x) ==
  CASE x.k = "word" -> W(LowerWord(x.s))
    [] x.k = "dt" /\ x.s \in LetterLayouts -> Lex("dtl", x.s, x.n, <<>>)
    [] OTHER -> x

LowerLex(x) ==
  IF x.k = "str"
    THEN Str([i \in 1..Len(x.c) |-> LowerFlat(x.c[i])])
    ELSE LowerFlat(x)

\* str.lower() on a text
Lower(t) == [i \in 1..Len(t) |-> LowerLex(t[i])]

\* -------------------------------------------------------------- json.loads

\* Python values: NoneType, bool, int, float, str (dict is a function from
\* keys to these).  float s: "integral" (value n), "big" (value 10^n), "nan",
\* "inf", "-inf".  int s: "small" (value n), "big" (value 10^n).
PyNone == [t |-> "None", s |-> "", n |-> 0, c |-> <<>>]
PyBool(b) == [t |-> "bool", s |-> IF b THEN "True" ELSE "False", n |-> 0, c |-> <<>>]
PyInt(s, n) == [t |-> "int", s |-> s, n |-> n, c |-> <<>>]
PyFloat(s, n) == [t |-> "float", s |-> s, n |-> n, c |-> <<>>]
PyStr(c) == [t |-> "str", s |-> "", n |-> 0, c |-> c]
\* no value: the lexeme is not a JSON scalar
NoValue == [t |-> "invalid", s |-> "", n |-> 0, c |-> <<>>]

\* the value of one scalar lexeme, NoValue when it is not JSON
ScalarValue(x) ==
  CASE x.k = "word" /\ x.s = "true" -> PyBool(TRUE)
    [] x.k = "word" /\ x.s = "false" -> PyBool(FALSE)
    [] x.k = "word" /\ x.s = "null" -> PyNone
    [] x.k = "word" /\ x.s = "NaN" -> PyFloat("nan", 0)
    [] x.k = "word" /\ x.s = "Infinity" -> PyFloat("inf", 0)
    [] x.k = "word" /\ x.s = "-Infinity" -> PyFloat("-inf", 0)
    [] x.k = "num" /\ x.s = "int" -> PyInt("small", x.n)
    [] x.k = "num" /\ x.s = "bigint" -> PyInt("big", x.n)
    [] x.k = "num" /\ x.s = "dot0" -> PyFloat("integral", x.n)
    [] x.k = "num" /\ x.s = "e18" -> PyFloat("big", 18)
    [] x.k = "num" /\ x.s = "e20" -> PyFloat("big", 20)
    [] x.k = "str" -> PyStr(x.c)
    [] OTHER -> NoValue

\* whitespace between lexemes is insignificant to JSON
Significant(t) == SelectSeq(t, LAMBDA x : x.k # "ws")

\* the members of an object body  key : value , key : value ...  in order,
\* each a <<key, value>> pair; ok is FALSE when the body is malformed
RECURSIVE Members(_)
Members(u) ==
  IF Len(u) < 3 \/ u[1].k # "str" \/ u[2] # Pn(":") \/ ScalarValue(u[3]) = NoValue
    THEN [ok |-> FALSE, ms |-> <<>>]
    ELSE IF Len(u) = 3
      THEN [ok |-> TRUE, ms |-> << <<u[1].c, ScalarValue(u[3])>> >>]
      ELSE IF u[4] # Pn(",")
        THEN [ok |-> FALSE, ms |-> <<>>]
        ELSE LET rest == Members(SubSeq(u, 5, Len(u)))
             IN [ok |-> rest.ok,
                 ms |-> << <<u[1].c, ScalarValue(u[3])>> >> \o rest.ms]

\* a dict from its members in order: a later duplicate key replaces an earlier
MakeDict(ms) ==
  LET keys == {ms[i][1] : i \in 1..Len(ms)}
      last(key) == CHOOSE i \in 1..Len(ms) :
                     /\ ms[i][1] = key
                     /\ \A j \in 1..Len(ms) : ms[j][1] = key => j <= i
  IN [key \in keys |-> ms[last(key)][2]]

\* json.loads(text): ok is FALSE for a JSONDecodeError; isdict tells a dict
\* (in d) from a scalar (in v)
JsonFail == [ok |-> FALSE, isdict |-> FALSE, v |-> PyNone, d |-> <<>>]
JsonScalar(v) == [ok |-> TRUE, isdict |-> FALSE, v |-> v, d |-> <<>>]
JsonDict(d) == [ok |-> TRUE, isdict |-> TRUE, v |-> PyNone, d |-> d]

json_loads(t) ==
  LET u == Significant(t)
  IN CASE Len(u) = 1 /\ ScalarValue(u[1]) # NoValue -> JsonScalar(ScalarValue(u[1]))
       [] Len(u) = 2 /\ u[1] = Pn("{") /\ u[2] = Pn("}") -> JsonDict(<<>>)
       [] Len(u) > 2 /\ u[1] = Pn("{") /\ u[Len(u)] = Pn("}") ->
            LET r == Members(SubSeq(u, 2, Len(u) - 1))
            IN IF r.ok THEN JsonDict(MakeDict(r.ms)) ELSE JsonFail
       [] OTHER -> JsonFail

\* --------------------------------------------------------- payload_parser

PAYLOAD_FIELDS == << <<W("payload")>>, <<W("value")>>, <<W("status")>>,
                     <<W("state")>>, <<W("data")>> >>

TIMESTAMP_FIELDS == << <<W("timestamp")>>, <<W("time")>>, <<W("ts")>>,
                       <<W("datetime")>>, <<W("date")>> >>

\* the layouts of TIMESTAMP_FORMATS, in order
TIMESTAMP_FORMATS == <<"sp", "T", "TZ", "Tf", "TfZ", "slash", "dmy">>

DEFAULT_MAX_AGE_SECONDS == 60

\* the first of fields that is a key of dict d, 0 when none is
FirstField(fields, d) ==
  LET present == {i \in 1..Len(fields) : fields[i] \in DOMAIN d}
  IN IF present = {} THEN 0
     ELSE CHOOSE i \in present : \A j \in present : i <= j

_extract_from_json(t) ==
  LET data == json_loads(t)
  IN IF ~data.ok THEN PyNone
     ELSE IF ~data.isdict THEN data.v
     ELSE LET i == FirstField(PAYLOAD_FIELDS, data.d)
          IN IF i = 0 THEN PyNone ELSE data.d[PAYLOAD_FIELDS[i]]

\* _normalize_value: the text of str(value), lowered and stripped
_normalize_value(value) ==
  CASE value.t = "bool" -> IF value.s = "True" THEN <<W("true")>> ELSE <<W("false")>>
    [] value.t = "int" /\ value.s = "small" -> <<Num("int", value.n)>>
    [] value.t = "int" /\ value.s = "big" -> <<Num("bigint", value.n)>>
    [] value.t = "float" /\ value.s = "integral" -> <<Num("int", value.n)>>
    [] value.t = "float" /\ value.s = "big" -> <<Num("bigint", value.n)>>
    [] value.t = "float" /\ value.s = "nan" -> <<W("nan")>>
    [] value.t = "float" /\ value.s = "inf" -> <<W("inf")>>
    [] value.t = "float" /\ value.s = "-inf" -> <<W("-inf")>>
    [] value.t = "str" -> Strip(Lower(value.c))
    [] OTHER -> <<W("none")>>

\* a parse_payload that forgets to lower the plain text
parse_payload_NoLower(raw_payload) ==
  IF raw_payload = <<>> THEN <<>>
  ELSE LET t == Strip(raw_payload)
           json_value == _extract_from_json(t)
       IN IF json_value # PyNone THEN _normalize_value(json_value) ELSE t

parse_payload(raw_payload) ==
  IF raw_payload = <<>> THEN <<>>
  ELSE LET t == Strip(raw_payload)
           json_value == _extract_from_json(t)
       IN IF json_value # PyNone THEN _normalize_value(json_value) ELSE Lower(t)

is_truthy(value) ==
  value \in { <<Num("int", 1)>>, <<W("on")>>, <<W("true")>>, <<W("online")>>,
              <<W("connected")>>, <<W("started")>>, <<W("yes")>>, <<W("active")>> }

\* an is_falsy that takes every value that is not truthy
is_falsy_Loose(value) == ~is_truthy(value)

is_falsy(value) ==
  value \in { <<Num("int", 0)>>, <<W("off")>>, <<W("false")>>, <<W("offline")>>,
              <<W("disconnected")>>, <<W("stopped")>>, <<W("no")>>, <<W("inactive")>> }

\* a parsed timestamp: None, a datetime (second n), or the exception that
\* left the parser
TsNone == [st |-> "None", n |-> 0, exc |-> ""]
TsAt(n) == [st |-> "datetime", n |-> n, exc |-> ""]
TsRaise(e) == [st |-> "raise", n |-> 0, exc |-> e]

\* datetime.fromtimestamp(value): the datetime, or the exception it raises
\* (ValueError: NaN, year out of range; OSError: beyond localtime;
\* OverflowError: beyond time_t)
fromtimestamp(value) ==
  CASE value.t = "bool" -> [exc |-> "", n |-> IF value.s = "True" THEN 1 ELSE 0]
    [] value.t = "int" /\ value.s = "small" -> [exc |-> "", n |-> value.n]
    [] value.t = "int" /\ value.n = 18 -> [exc |-> "OSError", n |-> 0]
    [] value.t = "int" -> [exc |-> "OverflowError", n |-> 0]
    [] value.t = "float" /\ value.s = "integral" -> [exc |-> "", n |-> value.n]
    [] value.t = "float" /\ value.s = "nan" -> [exc |-> "ValueError", n |-> 0]
    [] value.t = "float" /\ value.s = "big" /\ value.n = 18 -> [exc |-> "ValueError", n |-> 0]
    [] OTHER -> [exc |-> "OverflowError", n |-> 0]

\* datetime.strptime(ts_str, fmt): matching ignores letter case
strptime_ok(ts_str, fmt) ==
  /\ Len(ts_str) = 1
  /\ ts_str[1].k \in {"dt", "dtl"}
  /\ ts_str[1].s = fmt

\* _parse_timestamp_value, numeric branch: except (ValueError, OSError)
NumericTimestamp(ts_value) ==
  LET r == fromtimestamp(ts_value)
  IN IF r.exc = "" THEN TsAt(r.n)
     ELSE IF r.exc \in {"ValueError", "OSError"} THEN TsNone
     ELSE TsRaise(r.exc)

_parse_timestamp_value(ts_value) ==
  IF ts_value = PyNone THEN TsNone
  ELSE IF ts_value.t \in {"bool", "int", "float"} THEN NumericTimestamp(ts_value)
  ELSE LET ts_str == Strip(ts_value.c)
           hits == {i \in 1..Len(TIMESTAMP_FORMATS) :
                      strptime_ok(ts_str, TIMESTAMP_FORMATS[i])}
       IN IF hits = {} THEN TsNone ELSE TsAt(ts_str[1].n)

parse_timestamp(raw_payload) ==
  IF raw_payload = <<>> THEN TsNone
  ELSE LET data == json_loads(Strip(raw_payload))
       IN IF ~data.ok \/ ~data.isdict THEN TsNone
          ELSE LET i == FirstField(TIMESTAMP_FIELDS, data.d)
               IN IF i = 0 THEN TsNone
                  ELSE _parse_timestamp_value(data.d[TIMESTAMP_FIELDS[i]])

\* parse_payload_with_timestamp: the value, then the timestamp
parse_payload_with_timestamp(raw_payload) ==
  [value |-> parse_payload(raw_payload), timestamp |-> parse_timestamp(raw_payload)]

\* an is_message_recent that never finds a message stale
is_message_recent_Always(timestamp, max_age_seconds, t) == TRUE

\* an is_message_recent whose boundary is exclusive (< for <=)
is_message_recent_Strict(timestamp, max_age_seconds, t) ==
  timestamp.st = "None" \/ t - timestamp.n < max_age_seconds

\* an is_message_recent that ignores max_age_seconds for the default
is_message_recent_DefaultAge(timestamp, max_age_seconds, t) ==
  timestamp.st = "None" \/ t - timestamp.n <= DEFAULT_MAX_AGE_SECONDS

\* is_message_recent at wall-clock second t (datetime.now())
is_message_recent(timestamp, max_age_seconds, t) ==
  timestamp.st = "None" \/ t - timestamp.n <= max_age_seconds


\* ------------------------------------------------------------ fcm_service

NOTIFICATION_TYPES ==
  [pump_start |-> [title |-> "Pump Started",
                   body |-> "Your irrigation pump has started",
                   fcm_topic |-> "pump_events"],
   pump_stop |-> [title |-> "Pump Stopped",
                  body |-> "Your irrigation pump has stopped",
                  fcm_topic |-> "pump_events"],
   device_online |-> [title |-> "Device Online",
                      body |-> "Your device is now connected",
                      fcm_topic |-> "device_status"],
   device_offline |-> [title |-> "Device Offline",
                       body |-> "Your device has disconnected",
                       fcm_topic |-> "device_status"]]

\* what the Firebase SDK does with a call: "ok", "init_error" (initialize_app
\* raises) or "send_error" (messaging.send raises)
GatewayOutcomes == {"ok", "init_error", "send_error"}

\* what _get_firebase_app did: the module's _app after the call, the
\* exception it raised, whether it went past the "_app is not None" test
\* (attempted) and whether initialize_app returned an app (initialized)
AppResult(app, exc, attempted, initialized) ==
  [app |-> app, exc |-> exc, attempted |-> attempted, initialized |-> initialized]

\* a _get_firebase_app without the "_app is not None" test
_get_firebase_app_NoCache(app, creds, gw) ==
  IF ~creds THEN AppResult(app, "FileNotFoundError", TRUE, FALSE)
  ELSE IF gw = "init_error" THEN AppResult(app, "ValueError", TRUE, FALSE)
  ELSE AppResult("app", "", TRUE, TRUE)

_get_firebase_app(app, creds, gw) ==
  IF app # "None" THEN AppResult(app, "", FALSE, FALSE)
  ELSE IF ~creds THEN AppResult(app, "FileNotFoundError", TRUE, FALSE)
  ELSE IF gw = "init_error" THEN AppResult(app, "ValueError", TRUE, FALSE)
  ELSE AppResult("app", "", TRUE, TRUE)

NoMessage ==
  [built |-> FALSE, title |-> "", body |-> <<>>,
   data |-> [k \in {} |-> <<>>], topic |-> ""]

\* the body and data payload send_to_topic builds (t: time.time())
BuildMessage(notification_type, device_id, t) ==
  LET notif_config == NOTIFICATION_TYPES[notification_type]
      body == IF device_id # <<>>
                THEN <<notif_config.body, " (Device: ">> \o device_id \o <<")">>
                ELSE <<notif_config.body>>
      base == [k \in {"type", "timestamp"} |->
                 IF k = "type" THEN <<notification_type>> ELSE <<t>>]
      payload_data ==
        IF device_id # <<>>
          THEN [k \in {"type", "timestamp", "device_id"} |->
                  IF k = "device_id" THEN device_id ELSE base[k]]
          ELSE base
  IN [built |-> TRUE, title |-> notif_config.title, body |-> body,
      data |-> payload_data, topic |-> notif_config.fcm_topic]

\* what one send function did: the exception it raised, _app afterwards, the
\* message it built, what _get_firebase_app did (g), whether it looked the
\* notification type up and whether it handed a message to the SDK; tokens
\* is the token or tokens a message that is not for a topic is addressed to
SendResult(exc, g, message, looked_up, sent) ==
  [exc |-> exc, app |-> g.app, message |-> message, attempted |-> g.attempted,
   initialized |-> g.initialized, looked_up |-> looked_up, sent |-> sent,
   tokens |-> <<>>]

\* token=token or tokens=tokens in place of topic=
AddressedTo(r, tokens) ==
  [r EXCEPT !.message.topic = "", !.tokens = IF r.sent THEN tokens ELSE <<>>]

\* lines 50-101 (and 122-169, 187-215): after _get_firebase_app returned
BuildAndSend(g, notification_type, device_id, t, gw) ==
  IF notification_type \notin DOMAIN NOTIFICATION_TYPES
    THEN SendResult("ValueError", g, NoMessage, TRUE, FALSE)
    ELSE SendResult(IF gw = "send_error" THEN "FirebaseError" ELSE "", g,
                    BuildMessage(notification_type, device_id, t), TRUE, TRUE)

\* line 48 (and 120, 185): _get_firebase_app() comes first, and what it
\* raises leaves the function
AfterGetApp(g, notification_type, device_id, t, gw) ==
  IF g.exc # ""
    THEN SendResult(g.exc, g, NoMessage, FALSE, FALSE)
    ELSE BuildAndSend(g, notification_type, device_id, t, gw)

\* send_to_topic(notification_type, device_id=device_id)
send_to_topic(notification_type, device_id, t, app, creds, gw) ==
  AfterGetApp(_get_firebase_app(app, creds, gw), notification_type, device_id, t, gw)

\* send_to_device(token, notification_type, device_id=device_id): the same
\* steps, the message addressed to token
send_to_device(token, notification_type, device_id, t, app, creds, gw) ==
  AddressedTo(AfterGetApp(_get_firebase_app(app, creds, gw), notification_type,
                          device_id, t, gw),
              <<token>>)

\* send_multicast(tokens, notification_type, device_id=device_id): the same
\* steps, a MulticastMessage addressed to tokens
send_multicast(tokens, notification_type, device_id, t, app, creds, gw) ==
  AddressedTo(AfterGetApp(_get_firebase_app(app, creds, gw), notification_type,
                          device_id, t, gw),
              tokens)

\* ----------------------------------------------------------- mqtt_handler

\* str.endswith
EndsWith(s, suffix) ==
  /\ Len(s) >= Len(suffix)
  /\ SubSeq(s, Len(s) - Len(suffix) + 1, Len(s)) = suffix

\* str.split(sep) for a one-character sep: the segments, at least one
RECURSIVE Split(_, _)
Split(s, sep) ==
  LET cut == {i \in 1..Len(s) : s[i] = sep}
  IN IF cut = {} THEN <<s>>
     ELSE LET i == CHOOSE j \in cut : \A k \in cut : j <= k
          IN <<SubSeq(s, 1, i - 1)>> \o Split(SubSeq(s, i + 1, Len(s)), sep)

extract_device_id(topic) == Split(topic, "/")[1]

PumpSuffix == <<"/", "p", "u", "m", "p", "_", "s", "t", "a", "t", "u", "s">>
StatusSuffix == <<"/", "s", "t", "a", "t", "u", "s">>

\* the if/elif chain of on_message: the notification type send_to_topic is
\* called with, "" when the message is skipped
Route(topic, payload, timestamp, t) ==
  IF EndsWith(topic, PumpSuffix)
    THEN IF ~is_message_recent(timestamp, DEFAULT_MAX_AGE_SECONDS, t) THEN ""
         ELSE IF is_truthy(payload) THEN "pump_start"
         ELSE IF is_falsy(payload) THEN "pump_stop"
         ELSE ""
  ELSE IF EndsWith(topic, StatusSuffix)
    THEN LET is_offline == is_falsy(payload)
         IN IF ~is_offline /\ ~is_message_recent(timestamp, DEFAULT_MAX_AGE_SECONDS, t) THEN ""
            ELSE IF is_truthy(payload) THEN "device_online"
            ELSE IF is_offline THEN "device_offline"
            ELSE ""
  ELSE ""

\* an except clause that names ValueError alone
Catches_ValueErrorOnly(exc) == exc = "ValueError"

\* the classes "except Exception" catches, among those that can arise here
Catches(exc) ==
  exc \in {"FileNotFoundError", "ValueError", "FirebaseError", "OverflowError", "OSError"}

\* an except block that calls send_to_topic once more
RetryOnFailure(call) == <<call>>

\* the except block: it prints and returns; no further call is made
HandleSendFailure(call) == <<>>

\* the result of one on_message: outcome "returned" or "raised" (exc left
\* on_message), the send_to_topic calls made in order, the exception the
\* except block caught, the message handed to messaging.send, _app afterwards
Result(outcome, exc, value, timestamp, calls, caught, message, app) ==
  [outcome |-> outcome, exc |-> exc, value |-> value, timestamp |-> timestamp,
   calls |-> calls, caught |-> caught, message |-> message, app |-> app]

\* lines 73-118, after send_to_topic returned or raised r
AfterSend(p, call, r) ==
  IF r.exc = ""
    THEN Result("returned", "", p.value, p.timestamp, <<call>>, "", r.message, r.app)
  ELSE IF Catches(r.exc)
    THEN Result("returned", "", p.value, p.timestamp,
                <<call>> \o HandleSendFailure(call), r.exc, r.message, r.app)
  ELSE Result("raised", r.exc, p.value, p.timestamp, <<call>>, "", r.message, r.app)

\* lines 73-113: the try block, for the notification type the chain chose
Dispatch(device_id, p, type, t, app, creds, gw) ==
  IF type = ""
    THEN Result("returned", "", p.value, p.timestamp, <<>>, "", NoMessage, app)
    ELSE AfterSend(p, [type |-> type, device_id |-> device_id],
                   send_to_topic(type, device_id, t, app, creds, gw))

\* lines 67-118: p is what parse_payload_with_timestamp returned, or the
\* exception that left it (which leaves on_message, outside the try block)
AfterParse(topic, device_id, p, t, app, creds, gw) ==
  IF p.timestamp.st = "raise"
    THEN Result("raised", p.timestamp.exc, p.value, p.timestamp, <<>>, "", NoMessage, app)
    ELSE Dispatch(device_id, p, Route(topic, p.value, p.timestamp, t), t, app, creds, gw)

\* an on_message that, while _app is unset, only initializes the gateway
\* and drops the message
on_message_WarmUp(topic, decodable, raw_payload, t, app, creds, gw) ==
  IF ~decodable \/ app = "None"
    THEN Result("returned", "", <<>>, TsNone, <<>>, "", NoMessage,
                _get_firebase_app(app, creds, gw).app)
    ELSE AfterParse(topic, extract_device_id(topic),
                    parse_payload_with_timestamp(raw_payload), t, app, creds, gw)

on_message(topic, decodable, raw_payload, t, app, creds, gw) ==
  IF ~decodable
    THEN Result("returned", "", <<>>, TsNone, <<>>, "", NoMessage, app)
    ELSE AfterParse(topic, extract_device_id(topic),
                    parse_payload_with_timestamp(raw_payload), t, app, creds, gw)

\* ------------------------------------------------------------ the inputs

\* the wall clock runs from 0 to MaxNow seconds
MaxNow == 1

Dev1 == <<"d", "1">>
Dev2 == <<"d", "2">>

\* d1/pump_status, d2/status, /status (an empty first level, which the
\* subscription +/status matches), d2/x, and status (no level separator)
Topics ==
  { Dev1 \o PumpSuffix, Dev2 \o StatusSuffix, StatusSuffix,
    Dev2 \o <<"/", "x">>, Tail(StatusSuffix) }

LB == Pn("{")
RB == Pn("}")
Colon == Pn(":")
Comma == Pn(",")
Key(s) == Str(<<W(s)>>)

\* {"<key>": v}
Obj1(key, v) == <<LB, Key(key), Colon, v, RB>>
\* {"<k1>": v1, "<k2>": v2}
Obj2(k1, v1, k2, v2) == <<LB, Key(k1), Colon, v1, Comma, Ws, Key(k2), Colon, v2, RB>>

\* "timestamp" values: 60 s before the epoch second 0 (just fresh at second
\* 0, stale at second 1), 10 s after it (in the future), 1e20 (beyond
\* time_t), and the text of second -61 in the first layout (stale)
StampLexemes ==
  { Num("int", 0 - DEFAULT_MAX_AGE_SECONDS), Num("int", 10), Num("e20", 0),
    Str(<<Dt("sp", 0 - DEFAULT_MAX_AGE_SECONDS - 1)>>) }

StateLexemes == { Str(<<W("ON")>>), Str(<<W("off")>>), Str(<<W("Weird")>>) }

\* the payloads the broker delivers
Payloads ==
  { Obj1("payload", v) : v \in StateLexemes }
    \cup { Obj2("payload", v, "timestamp", ts) : v \in StateLexemes, ts \in StampLexemes }
    \cup { Obj1("value", Num("int", 1)), <<W("Online")>>, <<Ws, W("OFF"), Ws>>,
           <<Num("dot0", 1)>> }

\* ------------------------------------------------------ the state machine

VARIABLES
  now,      \* the wall clock, in seconds
  app,      \* fcm_service._app: "None" or "app"
  creds,    \* whether the file at FIREBASE_CREDENTIALS_PATH exists
  running,  \* whether loop_forever is still delivering messages
  failed,   \* whether some send_to_topic call has raised so far
  cur,      \* the message in the callback: received, then handled
  ref,      \* an earlier handled message, kept to compare a later one with
  pin,      \* parser check: the payload text given
  pout,     \* parser check: what the parser returned for pin
  fresh,    \* freshness check: the arguments, the second, the answer
  gcall     \* gateway check: the last fcm_service call and what it did

vars == <<now, app, creds, running, failed, cur, ref, pin, pout, fresh, gcall>>

NoResult == Result("none", "", <<>>, TsNone, <<>>, "", NoMessage, "None")

\* phase: "idle", "received" (on_message is about to run), "handled" (it ran:
\* at second t, after failed0 told whether a send had failed before)
Idle ==
  [phase |-> "idle", decodable |-> FALSE, topic |-> <<>>, raw |-> <<>>, t |-> 0,
   failed0 |-> FALSE, res |-> NoResult]

NoRef ==
  [set |-> FALSE, decodable |-> FALSE, topic |-> <<>>, raw |-> <<>>, t |-> 0,
   failed0 |-> FALSE, caught |-> "", outcome |-> "none", calls |-> <<>>]

NoOut == [done |-> FALSE, value |-> <<>>, timestamp |-> TsNone]

\* no is_message_recent call yet
NoFresh ==
  [done |-> FALSE, timestamp |-> TsNone, max_age_seconds |-> 0, t |-> 0,
   recent |-> FALSE]

\* no fcm_service call yet.  Of the last call: the function, the type asked
\* for, _app and the credentials file at entry, what the call did, whether
\* the call before it failed to initialize (prev_failed), and how many times
\* initialize_app has returned an app so far (inits)
NoCall ==
  [fn |-> "", type |-> "", app0 |-> "None", creds0 |-> FALSE, exc |-> "",
   attempted |-> FALSE, initialized |-> FALSE, looked_up |-> FALSE,
   sent |-> FALSE, prev_failed |-> FALSE, inits |-> 0]

Init ==
  /\ now = 0
  /\ app = "None"
  /\ creds \in BOOLEAN
  /\ running = TRUE
  /\ failed = FALSE
  /\ cur = Idle
  /\ ref = NoRef
  /\ pin = <<>>
  /\ pout = NoOut
  /\ fresh = NoFresh
  /\ gcall = NoCall

\* the network loop reads one message and is about to call on_message
Receive(topic, decodable, raw_payload) ==
  /\ running
  /\ cur.phase # "received"
  /\ cur' = [Idle EXCEPT !.phase = "received", !.decodable = decodable,
                         !.topic = topic, !.raw = raw_payload]
  /\ UNCHANGED <<now, app, creds, running, failed, ref, pin, pout, fresh, gcall>>

\* on_message runs to its end on the received message; an exception that
\* leaves it leaves loop_forever and start() too
Handle(gw) ==
  /\ running
  /\ cur.phase = "received"
  /\ LET r == on_message(cur.topic, cur.decodable, cur.raw, now, app, creds, gw)
     IN /\ cur' = [cur EXCEPT !.phase = "handled", !.t = now, !.failed0 = failed,
                              !.res = r]
        /\ app' = r.app
        /\ running' = (r.outcome = "returned")
        /\ failed' = (failed \/ r.caught # "" \/ (r.outcome = "raised" /\ r.calls # <<>>))
  /\ UNCHANGED <<now, creds, ref, pin, pout, fresh, gcall>>

\* a second passes
Tick ==
  /\ now < MaxNow
  /\ now' = now + 1
  /\ UNCHANGED <<app, creds, running, failed, cur, ref, pin, pout, fresh, gcall>>

\* the credentials file is installed or removed
CredentialsChange ==
  /\ creds' = ~creds
  /\ UNCHANGED <<now, app, running, failed, cur, ref, pin, pout, fresh, gcall>>

\* keep the handled message for a later comparison
Remember ==
  /\ cur.phase = "handled"
  /\ ref' = [set |-> TRUE, decodable |-> cur.decodable, topic |-> cur.topic,
             raw |-> cur.raw, t |-> cur.t, failed0 |-> cur.failed0,
             caught |-> cur.res.caught, outcome |-> cur.res.outcome,
             calls |-> cur.res.calls]
  /\ UNCHANGED <<now, app, creds, running, failed, cur, pin, pout, fresh, gcall>>

Next ==
  \/ \E topic \in Topics, raw \in Payloads : Receive(topic, TRUE, raw)
  \/ \E topic \in Topics : Receive(topic, FALSE, <<>>)
  \/ \E gw \in GatewayOutcomes : Handle(gw)
  \/ Tick
  \/ CredentialsChange

Spec == Init /\ [][Next]_vars

\* ---- pairs of handled messages: fewer messages, and one of them kept

\* d1/pump_status, d2/status
PairTopics == { Dev1 \o PumpSuffix, Dev2 \o StatusSuffix }

PairPayloads ==
  { Obj1("payload", Str(<<W("ON")>>)),
    Obj2("payload", Str(<<W("off")>>), "timestamp", Num("int", 0 - DEFAULT_MAX_AGE_SECONDS)),
    Obj2("payload", Str(<<W("ON")>>), "timestamp", Num("int", 0 - DEFAULT_MAX_AGE_SECONDS)),
    <<W("Weird")>> }

NextPair ==
  \/ \E topic \in PairTopics, raw \in PairPayloads : Receive(topic, TRUE, raw)
  \/ \E topic \in PairTopics : Receive(topic, FALSE, <<>>)
  \/ \E gw \in GatewayOutcomes : Handle(gw)
  \/ Remember
  \/ Tick
  \/ CredentialsChange

SpecPair == Init /\ [][NextPair]_vars

\* ---- the parser alone, on a wider set of payload texts

ScalarLexemes ==
  { W("ON"), W("off"), W("Weird"), W("TRUE"), W("true"), W("null"), W("NaN"),
    W("Infinity"), Num("int", 1), Num("int", 0), Num("dot0", 1), Num("e20", 0),
    Str(<<W("ON")>>), Str(<<Ws, W("Off"), Ws>>), Dt("TZ", 0) }

JsonValueLexemes ==
  { Str(<<W("ON")>>), Str(<<Ws, W("Off"), Ws>>), Num("int", 1), Num("dot0", 0),
    W("true"), W("null") }

ParsePayloads ==
  { <<v>> : v \in ScalarLexemes }
    \cup { <<Ws, v>> : v \in ScalarLexemes }
    \cup { <<Ws, v, Ws>> : v \in ScalarLexemes }
    \cup { <<>>, <<Ws>>, <<W("o"), Ws, W("N")>>, <<LB, RB>>, <<LB, W("ON"), RB>> }
    \cup { Obj1(k, v) : k \in {"payload", "state", "Payload", "foo"},
                        v \in JsonValueLexemes }
    \cup { Obj2(k, Str(<<W("ON")>>), "payload", v) : k \in {"value", "foo"},
                                                      v \in JsonValueLexemes }
    \cup { Obj2("payload", v, k, W("false")) : k \in {"value", "payload"},
                                               v \in JsonValueLexemes }
    \cup Payloads

InitParse ==
  /\ now = 0
  /\ app = "None"
  /\ creds = FALSE
  /\ running = TRUE
  /\ failed = FALSE
  /\ cur = Idle
  /\ ref = NoRef
  /\ pin \in ParsePayloads
  /\ pout = NoOut
  /\ fresh = NoFresh
  /\ gcall = NoCall

\* parse_payload_with_timestamp(pin) returns or raises
Parse ==
  /\ ~pout.done
  /\ LET p == parse_payload_with_timestamp(pin)
     IN pout' = [done |-> TRUE, value |-> p.value, timestamp |-> p.timestamp]
  /\ UNCHANGED <<now, app, creds, running, failed, cur, ref, pin, fresh, gcall>>

\* the next payload text
Feed ==
  /\ pout.done
  /\ pin' \in ParsePayloads
  /\ pout' = NoOut
  /\ UNCHANGED <<now, app, creds, running, failed, cur, ref, fresh, gcall>>

NextParse == Parse \/ Feed

SpecParse == InitParse /\ [][NextParse]_vars

\* ---- the freshness evaluator alone, on any max age

\* the timestamps given: None, and datetimes around the epoch second 0
FreshTimestamps ==
  {TsNone} \cup {TsAt(n) : n \in {0 - DEFAULT_MAX_AGE_SECONDS - 1,
                                  0 - DEFAULT_MAX_AGE_SECONDS, 0 - 1, 0, 1, 2, 10}}

\* the max_age_seconds given: the default and its neighbours, small ones,
\* zero, and a negative one
MaxAges ==
  {0 - 2, 0, 1, 2, DEFAULT_MAX_AGE_SECONDS - 1, DEFAULT_MAX_AGE_SECONDS,
   DEFAULT_MAX_AGE_SECONDS + 1}

InitFresh ==
  /\ now = 0
  /\ app = "None"
  /\ creds = FALSE
  /\ running = TRUE
  /\ failed = FALSE
  /\ cur = Idle
  /\ ref = NoRef
  /\ pin = <<>>
  /\ pout = NoOut
  /\ fresh \in [done : {FALSE}, timestamp : FreshTimestamps,
                max_age_seconds : MaxAges, t : {0}, recent : {FALSE}]
  /\ gcall = NoCall

\* is_message_recent(timestamp, max_age_seconds) is called and answers
CheckRecent ==
  /\ ~fresh.done
  /\ fresh' = [fresh EXCEPT
                 !.done = TRUE, !.t = now,
                 !.recent = is_message_recent(fresh.timestamp,
                                              fresh.max_age_seconds, now)]
  /\ UNCHANGED <<now, app, creds, running, failed, cur, ref, pin, pout, gcall>>

\* the next arguments
NextArguments ==
  /\ fresh.done
  /\ fresh' \in [done : {FALSE}, timestamp : FreshTimestamps,
                 max_age_seconds : MaxAges, t : {0}, recent : {FALSE}]
  /\ UNCHANGED <<now, app, creds, running, failed, cur, ref, pin, pout, gcall>>

NextFresh == CheckRecent \/ NextArguments \/ Tick

SpecFresh == InitFresh /\ [][NextFresh]_vars

\* ---- the gateway functions alone, called in any order

\* initialize_app is counted up to MaxInits
MaxInits == 2

\* two registered notification types and one that is not
CallTypes == {"pump_start", "device_offline", "bogus"}

Token1 == "token1"
Token2 == "token2"

\* the call fn(notification_type) at _app = app, credentials = creds did r
Called(fn, notification_type, r) ==
  /\ gcall.inits < MaxInits
  /\ gcall' = [fn |-> fn, type |-> notification_type, app0 |-> app,
               creds0 |-> creds, exc |-> r.exc, attempted |-> r.attempted,
               initialized |-> r.initialized, looked_up |-> r.looked_up,
               sent |-> r.sent,
               prev_failed |-> (gcall.fn # "" /\ gcall.attempted /\ ~gcall.initialized),
               inits |-> gcall.inits + (IF r.initialized THEN 1 ELSE 0)]
  /\ app' = r.app
  /\ UNCHANGED <<now, creds, running, failed, cur, ref, pin, pout, fresh>>

CallSendToTopic(notification_type, gw) ==
  Called("send_to_topic", notification_type,
         send_to_topic(notification_type, Dev1, now, app, creds, gw))

CallSendToDevice(notification_type, gw) ==
  Called("send_to_device", notification_type,
         send_to_device(Token1, notification_type, Dev1, now, app, creds, gw))

CallSendMulticast(notification_type, gw) ==
  Called("send_multicast", notification_type,
         send_multicast(<<Token1, Token2>>, notification_type, Dev1, now, app, creds, gw))

NextGateway ==
  \/ \E type \in CallTypes, gw \in GatewayOutcomes : CallSendToTopic(type, gw)
  \/ \E type \in CallTypes, gw \in GatewayOutcomes : CallSendToDevice(type, gw)
  \/ \E type \in CallTypes, gw \in GatewayOutcomes : CallSendMulticast(type, gw)
  \/ Tick
  \/ CredentialsChange

SpecGateway == Init /\ [][NextGateway]_vars
\* ------------------------------------------------------------- properties

\* the vocabularies of the state classifier, as canonical values
AffirmativeVocabulary ==
  { <<Num("int", 1)>>, <<W("on")>>, <<W("true")>>, <<W("online")>>, <<W("connected")>>,
    <<W("started")>>, <<W("yes")>>, <<W("active")>> }
NegativeVocabulary ==
  { <<Num("int", 0)>>, <<W("off")>>, <<W("false")>>, <<W("offline")>>,
    <<W("disconnected")>>, <<W("stopped")>>, <<W("no")>>, <<W("inactive")>> }

Handled == cur.phase = "handled"
PumpTopic == EndsWith(cur.topic, PumpSuffix)
StatusTopic == EndsWith(cur.topic, StatusSuffix)
\* the notification types on_message called send_to_topic with, in order
SentTypes == [i \in 1..Len(cur.res.calls) |-> cur.res.calls[i].type]
\* the handled message carries a parsed timestamp older than the max age
Stale ==
  /\ cur.res.timestamp.st = "datetime"
  /\ cur.t - cur.res.timestamp.n > DEFAULT_MAX_AGE_SECONDS
\* the handled message has no timestamp, or one within the max-age window
Fresh ==
  \/ cur.res.timestamp.st = "None"
  \/ /\ cur.res.timestamp.st = "datetime"
     /\ cur.t - cur.res.timestamp.n <= DEFAULT_MAX_AGE_SECONDS
\* a send_to_topic call of the handled message raised
SendRaised ==
  \/ cur.res.caught # ""
  \/ cur.res.outcome = "raised" /\ cur.res.calls # <<>>
\* the kept message and the handled one are the same message at the same second
SameMessage ==
  /\ ref.set
  /\ Handled
  /\ ref.decodable = cur.decodable
  /\ ref.topic = cur.topic
  /\ ref.raw = cur.raw
  /\ ref.t = cur.t

\* C1: every decodable message on a topic ending in /status whose normalized
\* value is in the negative vocabulary makes on_message call send_to_topic
\* with device_offline, whatever its timestamp field holds.
C1_NegativeStatusAlwaysSendsOffline ==
  (Handled /\ cur.decodable /\ StatusTopic
     /\ parse_payload(cur.raw) \in NegativeVocabulary)
    => SentTypes = <<"device_offline">>

\* C2: a stale pump-status message (affirmative or negative) and a stale
\* affirmative connectivity-status message cause no send_to_topic call:
\* on_message returns without one.
C2_StaleIsSuppressed ==
  (Handled /\ Stale
     /\ \/ PumpTopic /\ cur.res.value \in AffirmativeVocabulary \cup NegativeVocabulary
        \/ StatusTopic /\ cur.res.value \in AffirmativeVocabulary)
    => (cur.res.calls = <<>> /\ cur.res.outcome = "returned")

\* a stale affirmative connectivity-status message (and a stale pump-status
\* one) was handled
C2_Witness ==
  /\ Handled /\ Stale
  /\ StatusTopic
  /\ cur.res.value \in AffirmativeVocabulary
  /\ cur.res.calls = <<>>

C4_AmbiguousAndUnrecognizedSuppressed ==
  (Handled
     /\ \/ cur.res.value \notin AffirmativeVocabulary \cup NegativeVocabulary
        \/ ~PumpTopic /\ ~StatusTopic)
    => cur.res.calls = <<>>

\* an ambiguous value on a pump-status topic, with no timestamp, was handled
C4_Witness ==
  /\ Handled /\ cur.decodable /\ PumpTopic
  /\ cur.res.timestamp.st = "None"
  /\ cur.res.value = <<W("weird")>>
  /\ cur.res.calls = <<>>

\* C5: parsing never raises: for every decodable payload
\* parse_payload_with_timestamp returns a value and an optional timestamp, so
\* on_message never fails before the routing step.
C5_ParsingNeverRaises ==
  (Handled /\ cur.decodable)
    => /\ cur.res.timestamp.st \in {"None", "datetime"}
       /\ ~(cur.res.outcome = "raised" /\ cur.res.calls = <<>>)

\* C6: an exception raised by send_to_topic does not leave on_message and
\* does not stop message handling, and a message handled after such a
\* failure is routed as it was before any failure.
C6_SendFailureIsIsolated ==
  /\ (Handled /\ SendRaised) => (cur.res.outcome = "returned" /\ running)
  /\ (SameMessage /\ ~ref.failed0 /\ cur.failed0)
       => (ref.calls = cur.res.calls /\ ref.outcome = cur.res.outcome)

\* a message was routed before any send had failed, and the same message is
\* routed again after a send failed
C6_Witness ==
  /\ SameMessage /\ ~ref.failed0 /\ cur.failed0
  /\ cur.res.calls # <<>>
  /\ running

\* C7: on_message calls send_to_topic at most once for a message, and a
\* failed call is not repeated.
C7_AtMostOneSend == Handled => Len(cur.res.calls) <= 1

\* a send_to_topic call raised, was caught, and was the only call
C7_Witness ==
  /\ Handled
  /\ cur.res.caught # ""
  /\ Len(cur.res.calls) = 1

\* C8: the routing decision (no call, or the type and device id of the call)
\* is the same for the same topic and payload at the same second, whatever
\* was handled in between and whether earlier sends failed.
C8_RoutingIsStateless == SameMessage => ref.calls = cur.res.calls

\* the same message was handled twice at the same second: its send failed
\* the first time and succeeded the second
C8_Witness ==
  /\ SameMessage
  /\ ref.caught # ""
  /\ cur.res.caught = ""
  /\ cur.res.calls # <<>>

\* the part of a topic before its first "/" (all of it when it has none)
BeforeFirstSlash(topic) ==
  LET cut == {i \in 1..Len(topic) : topic[i] = "/"}
  IN IF cut = {} THEN topic
     ELSE SubSeq(topic, 1, (CHOOSE i \in cut : \A j \in cut : i <= j) - 1)

\* C9: every notification built for a message on topic T carries the part of
\* T before the first "/" as device_id in its data payload and as the
\* " (Device: ...)" suffix of its body, whatever that string is.
C9_NotificationCarriesDeviceId ==
  (Handled /\ cur.res.message.built)
    => LET id == BeforeFirstSlash(cur.topic)
           m == cur.res.message
       IN /\ "device_id" \in DOMAIN m.data
          /\ m.data["device_id"] = id
          /\ SubSeq(m.body, 2, Len(m.body)) = <<" (Device: ">> \o id \o <<")">>

\* the trimmed text is not a JSON object
PlainText(p) ==
  LET j == json_loads(Strip(p)) IN ~(j.ok /\ j.isdict)

\* the trimmed text is no JSON value, or is the JSON literal null
NotAJsonValue(p) ==
  LET j == json_loads(Strip(p)) IN ~j.ok \/ (~j.isdict /\ j.v = PyNone)

\* C10 as stated: for every plain-text payload p, parse_payload(p) is
\* trim(p) lowercased.
C10_PlainTextIsTrimmedLowered ==
  (pout.done /\ PlainText(pin)) => pout.value = Lower(Strip(pin))

\* C10 as amended: for every plain-text payload p whose trimmed text is not
\* itself a JSON value (or is the literal null), parse_payload(p) is trim(p)
\* lowercased.
C10_NonJsonTextIsTrimmedLowered ==
  (pout.done /\ PlainText(pin) /\ NotAJsonValue(pin))
    => pout.value = Lower(Strip(pin))

\* a padded upper-case word was parsed: trimming and lowering both changed it
C10_Witness ==
  /\ pout.done
  /\ PlainText(pin) /\ NotAJsonValue(pin)
  /\ Strip(pin) # pin
  /\ Lower(Strip(pin)) # Strip(pin)
  /\ pout.value = Lower(Strip(pin))

\* the trimmed text is a JSON object with a "payload" member
HasPayloadField(p) ==
  LET j == json_loads(Strip(p))
  IN j.ok /\ j.isdict /\ <<W("payload")>> \in DOMAIN j.d

\* the value of the "payload" member of the object
PayloadFieldValue(p) == json_loads(Strip(p)).d[<<W("payload")>>]

\* C11: for every JSON-object payload with a "payload" field, parse_payload
\* returns the normalized value of that field, whatever other candidate
\* fields are present, in whatever order, and whatever the field's value is.
C11_PayloadFieldWins ==
  (pout.done /\ HasPayloadField(pin))
    => pout.value = _normalize_value(PayloadFieldValue(pin))

\* the elapsed duration now - ts of the answered call, in seconds
Age == fresh.t - fresh.timestamp.n

GatewayCalled == gcall.fn # ""

\* C13: over any sequence of send_to_topic / send_to_device / send_multicast
\* calls the gateway client is initialized at most once: a call that finds
\* _app set neither initializes nor changes it; a call that finds _app unset
\* and the credentials file missing raises FileNotFoundError with _app still
\* unset, before any notification-type lookup or send; and the call after a
\* failed initialization attempts it again.
C13_InitializedAtMostOnce ==
  /\ gcall.inits <= 1
  /\ (GatewayCalled /\ gcall.app0 # "None")
       => (~gcall.attempted /\ ~gcall.initialized /\ app = gcall.app0)
  /\ (GatewayCalled /\ gcall.app0 = "None" /\ ~gcall.creds0)
       => /\ gcall.exc = "FileNotFoundError"
          /\ app = "None"
          /\ ~gcall.initialized /\ ~gcall.looked_up /\ ~gcall.sent
  /\ (GatewayCalled /\ gcall.prev_failed)
       => /\ gcall.app0 = "None"
          /\ gcall.attempted
          /\ gcall.creds0 => (gcall.initialized \/ gcall.exc = "ValueError")

\* after a call that failed for the missing credentials file, a call found
\* the file, initialized the client and sent
C13_Witness ==
  /\ GatewayCalled
  /\ gcall.prev_failed
  /\ gcall.initialized
  /\ gcall.sent
  /\ gcall.inits = 1
  /\ app # "None"
====
